---- MODULE Spec2Model ----
(***************************************************************************)
(* The exam orchestration of App (the six-section Shanghai oral test):     *)
(* the React state of App, the pending continuation of the run* flows,     *)
(* the AudioRecorder component and processExamResults.                     *)
(*                                                                         *)
(* One action is one synchronous block of JavaScript (from an event or a   *)
(* resolved await up to the next await) together with the render that      *)
(* follows it.  React state setters called in one block are applied        *)
(* together; an updater function runs once.                                *)
(***************************************************************************)
EXTENDS Integers, Sequences, FiniteSets, TLC

(* ----------------------------- bounds ---------------------------------- *)
\* Largest item count of speakingA.items, speakingC.items,
\* listeningA.questions and listeningB.questions in a generated paper.
MaxItems == 2
\* Largest number of evaluateAudio calls of one scoring pass that do not
\* return a model-produced result.
MaxFailures == 1
\* Largest maxDuration a host hands to an AudioRecorder taken on its own.
MaxDuration == 5

(* ------------------------- program constants --------------------------- *)
PrepSecondsA == 30
PrepSecondsB == 60
PrepSecondsD == 60
RestSeconds == 10
RecordSecondsA == 15
RecordSecondsB == 30
RecordSecondsC == 20
RecordSecondsD == 60
RecordSecondsListeningA == 5
RecordSecondsDefault == 30

(* ------------------------------ types ---------------------------------- *)
\* enum TestSectionType, in declaration order.
Sections ==
    <<"SpeakingA", "SpeakingB", "SpeakingC", "SpeakingD", "ListeningA", "ListeningB">>

SectionIndex(sec) == CHOOSE k \in 1..Len(Sections) : Sections[k] = sec

\* A listeningB question as far as the flow reads it.
QuestionKinds ==
    {[prepTime |-> 2, recordTime |-> 3, answerKey |-> "key", type |-> "fact"]}

SeqsUpTo(S, n) == UNION {[1..k -> S] : k \in 0..n}

\* interface TestPaper: the arrays are kept as their lengths, listeningB.questions
\* as the sequence of its questions; of speakingD, whether it has an
\* imageDescription, and its imageUrl, which a generated paper does not have yet.
Papers ==
    [speakingA : 0..MaxItems, speakingC : 0..MaxItems, listeningA : 0..MaxItems,
     listeningB : SeqsUpTo(QuestionKinds, MaxItems),
     imageDescription : {TRUE}, imageUrl : {"undefined"}]

\* A listeningB question whose prepTime or recordTime may be 0.
WideQuestionKinds ==
    [prepTime : {0, 2}, recordTime : {0, 3}, answerKey : {"key"}, type : {"fact"}]

\* Papers with one item in each of the other sections and any such questions.
WidePapers ==
    [speakingA : {1}, speakingC : {1}, listeningA : {1},
     listeningB : SeqsUpTo(WideQuestionKinds, MaxItems),
     imageDescription : {TRUE}, imageUrl : {"undefined"}]

\* A listeningB question whose answerKey may be missing ("undefined") or empty
\* and whose type is either of the two.
KeyedQuestionKinds ==
    [prepTime : {2}, recordTime : {3}, answerKey : {"undefined", "", "key"},
     type : {"fact", "opinion"}]

\* Papers with one item in each of the other sections and any such questions.
KeyedPapers ==
    [speakingA : {1}, speakingC : {1}, listeningA : {1},
     listeningB : SeqsUpTo(KeyedQuestionKinds, MaxItems),
     imageDescription : {TRUE}, imageUrl : {"undefined"}]

\* Papers with one item in each of the other sections, with or without an
\* imageDescription.
ImagePapers ==
    [speakingA : {1}, speakingC : {1}, listeningA : {1},
     listeningB : SeqsUpTo(QuestionKinds, MaxItems),
     imageDescription : BOOLEAN, imageUrl : {"undefined"}]

\* How a call of generateImage can end: the answer holds an image, the answer
\* holds none, or the call of the image model fails.
ImageOutcomes == {"image", "no image", "failed"}

\* useState<TestPaper | null>(null)
NoPaper ==
    [speakingA |-> -1, speakingC |-> -1, listeningA |-> -1, listeningB |-> <<>>,
     imageDescription |-> FALSE, imageUrl |-> "undefined"]

\* The number of items a section of the paper holds.
ItemCount(paper, sec) ==
    CASE sec = "SpeakingA" -> paper.speakingA
      [] sec = "SpeakingB" -> 1
      [] sec = "SpeakingC" -> paper.speakingC
      [] sec = "SpeakingD" -> 1
      [] sec = "ListeningA" -> paper.listeningA
      [] sec = "ListeningB" -> Len(paper.listeningB)

(* ------------------------------ state ---------------------------------- *)
VARIABLES
    status,          \* AppStatus
    testPaper,       \* TestPaper | null
    currentSection,  \* the cursor
    itemIndex,
    subItemIndex,
    phase,
    timer,
    userResponses,   \* the response log
    scores,          \* SectionScore[]
    scoringProgress, \* {current, total}
    flow,            \* the suspended run* / handleRecordingComplete continuation
    rec,             \* the AudioRecorder component
    proc,            \* processExamResults
    restLog,         \* the items after whose capture handleSectionRest was entered
    submitted,       \* the log indices handed to evaluateAudio in this pass
    outcomes,        \* how each settled evaluateAudio call of this pass ended
    generation,      \* how the last startGeneration call ended
    playLog,         \* the playTextAsSpeech calls of this run, in call order
    playFailed,      \* a playback of the item being run was answered by the catch
    phaseLog,        \* the values handed to setPhase since the flow of the item began
    carried          \* how many entries of userResponses and of scores an earlier run left

vars ==
    <<status, testPaper, currentSection, itemIndex, subItemIndex, phase, timer,
      userResponses, scores, scoringProgress, flow, rec, proc, restLog, submitted,
      outcomes, generation, playLog, playFailed, phaseLog, carried>>

NoFlow == [pc |-> "idle", sec |-> "SpeakingA", idx |-> 0, i |-> 0]

DeadFlow(sec, idx) == [pc |-> "dead", sec |-> sec, idx |-> idx, i |-> 0]

Suspended(pc, sec, idx) == [pc |-> pc, sec |-> sec, idx |-> idx, i |-> 0]

NoRecorder ==
    [mounted |-> FALSE, starting |-> FALSE, mr |-> "none", isRecording |-> FALSE,
     interval |-> FALSE, stream |-> FALSE, timeLeft |-> 0, maxDuration |-> 0,
     ticks |-> 0, sectionType |-> "SpeakingA", itemIndex |-> 0, subIndex |-> 0]

NoProc == [pc |-> "none", i |-> 0, log |-> <<>>, newScores |-> <<>>]

(* --------------------------- the recorder ------------------------------ *)
\* Mutant: the recordTime of the question is returned as it is.
GetRecordDurationNoDefault(paper, sec, idx) ==
    IF paper = NoPaper THEN 10
    ELSE CASE sec = "SpeakingA" -> RecordSecondsA
           [] sec = "SpeakingB" -> RecordSecondsB
           [] sec = "SpeakingC" -> RecordSecondsC
           [] sec = "SpeakingD" -> RecordSecondsD
           [] sec = "ListeningA" -> RecordSecondsListeningA
           [] sec = "ListeningB" ->
                IF idx < Len(paper.listeningB)
                THEN paper.listeningB[idx + 1].recordTime
                ELSE RecordSecondsDefault

\* getRecordDuration(), read by the render that mounts the recorder.
GetRecordDuration(paper, sec, idx) ==
    IF paper = NoPaper THEN 10
    ELSE CASE sec = "SpeakingA" -> RecordSecondsA
           [] sec = "SpeakingB" -> RecordSecondsB
           [] sec = "SpeakingC" -> RecordSecondsC
           [] sec = "SpeakingD" -> RecordSecondsD
           [] sec = "ListeningA" -> RecordSecondsListeningA
           [] sec = "ListeningB" ->
                IF idx < Len(paper.listeningB) /\ paper.listeningB[idx + 1].recordTime # 0
                THEN paper.listeningB[idx + 1].recordTime
                ELSE RecordSecondsDefault

\* Mutant: the handler closes over the item index of the first render.
ClosureIndexStale(idx) == 0

\* The item index the mounting render closes handleRecordingComplete over.
ClosureIndex(idx) == idx

\* A fresh AudioRecorder: useState(maxDuration), the onRecordingComplete of the
\* mounting render, and the mount effect calling start().
MountRecorder(paper, sec, idx, sub) ==
    [mounted |-> TRUE, starting |-> TRUE, mr |-> "none", isRecording |-> FALSE,
     interval |-> FALSE, stream |-> FALSE,
     timeLeft |-> GetRecordDuration(paper, sec, idx),
     maxDuration |-> GetRecordDuration(paper, sec, idx), ticks |-> 0,
     sectionType |-> sec, itemIndex |-> ClosureIndex(idx), subIndex |-> sub]

\* cleanup(): the interval is cleared and the tracks of the stream are stopped.
Cleanup(r) == [r EXCEPT !.interval = FALSE, !.stream = FALSE]

\* The unmount effect runs cleanup(); a MediaRecorder that is still recording
\* stops when its tracks end and then fires onstop.
Unmount(r) ==
    IF r.mr \in {"recording", "stopping"}
    THEN [Cleanup(r) EXCEPT !.mounted = FALSE, !.starting = FALSE, !.mr = "stopping",
                            !.isRecording = FALSE]
    ELSE NoRecorder

\* Mutant: the recorder is also rendered during the rest interval.
RenderRecorderInRest(r) ==
    IF status' = "InProgress" /\ phase' \in {"recording", "rest"}
    THEN IF r.mounted THEN r
         ELSE MountRecorder(testPaper', currentSection', itemIndex', subItemIndex')
    ELSE IF r.mounted THEN Unmount(r) ELSE r

\* {phase === 'recording' && <AudioRecorder .../>} inside the InProgress branch:
\* the recorder of the render that follows an action.
RenderRecorder(r) ==
    IF status' = "InProgress" /\ phase' = "recording"
    THEN IF r.mounted THEN r
         ELSE MountRecorder(testPaper', currentSection', itemIndex', subItemIndex')
    ELSE IF r.mounted THEN Unmount(r) ELSE r

(* ---------------------------- the flows -------------------------------- *)
\* runSpeakingA / runSpeakingB / runSpeakingD up to their first await.
RunReading(sec, idx) ==
    /\ phase' = "instruction"
    /\ phaseLog' = <<"instruction">>
    /\ currentSection' = sec
    /\ flow' = Suspended("settle", sec, idx)

\* runSpeakingC up to its first await; situations[idx].situation throws when
\* the situation is missing, after the section was set.
RunSpeakingC(idx) ==
    /\ currentSection' = "SpeakingC"
    /\ IF idx < testPaper.speakingC
       THEN /\ phase' = "playing"
            /\ phaseLog' = <<"instruction", "playing">>
            /\ flow' = Suspended("render", "SpeakingC", idx)
       ELSE /\ phase' = phase
            /\ phaseLog' = <<>>
            /\ flow' = DeadFlow("SpeakingC", idx)

\* Mutant: runListeningA plays the prompt without setting a phase first.
RunListeningAKeepsPhase(idx) ==
    /\ phase' = phase
    /\ phaseLog' = <<>>
    /\ currentSection' = "ListeningA"
    /\ flow' = Suspended("render", "ListeningA", idx)

\* runListeningA up to its first await.
RunListeningA(idx) ==
    /\ phase' = "playing"
    /\ phaseLog' = <<"instruction", "playing">>
    /\ currentSection' = "ListeningA"
    /\ flow' = Suspended("render", "ListeningA", idx)

\* runListeningB from `const q = section.questions[qIndex]` to the next await;
\* q.question throws when the question is missing, after setPhase('instruction').
\* `log` holds the values set before, in the passage block.
ListeningBQuestion(qIndex, log) ==
    /\ currentSection' = "ListeningB"
    /\ IF qIndex < Len(testPaper.listeningB)
       THEN /\ phase' = "playing"
            /\ phaseLog' = log \o <<"instruction", "playing">>
            /\ flow' = Suspended("render", "ListeningB", qIndex)
       ELSE /\ phase' = "instruction"
            /\ phaseLog' = log \o <<"instruction">>
            /\ flow' = DeadFlow("ListeningB", qIndex)

\* Mutant: the passage is played before every question but the first.
PlaysPassageNotFirst(qIndex) == qIndex # 0

\* Mutant: the passage is played before every question.
PlaysPassageAlways(qIndex) == TRUE

\* if (qIndex === 0): the passage is played when this holds.
PlaysPassage(qIndex) == qIndex = 0

\* runListeningB up to its first await.
RunListeningB(qIndex) ==
    IF PlaysPassage(qIndex)
    THEN /\ currentSection' = "ListeningB"
         /\ phase' = "playing"
         /\ phaseLog' = <<"instruction", "playing">>
         /\ flow' = Suspended("renderPassage", "ListeningB", qIndex)
    ELSE ListeningBQuestion(qIndex, <<>>)

\* The run* function of a section, as called by startTest and
\* handleRecordingComplete.
RunItem(sec, idx) ==
    CASE sec \in {"SpeakingA", "SpeakingB", "SpeakingD"} -> RunReading(sec, idx)
      [] sec = "SpeakingC" -> RunSpeakingC(idx)
      [] sec = "ListeningA" -> RunListeningA(idx)
      [] sec = "ListeningB" -> RunListeningB(idx)

\* The preparation time of an item that has one.
PrepSeconds(paper, sec, idx) ==
    CASE sec = "SpeakingA" -> PrepSecondsA
      [] sec = "SpeakingB" -> PrepSecondsB
      [] sec = "SpeakingD" -> PrepSecondsD
      [] sec = "ListeningB" -> paper.listeningB[idx + 1].prepTime

\* Mutant: the flow sets 'recording' without awaiting runTimer.
BeginPrepSkips(d) ==
    /\ phase' = "recording"
    /\ phaseLog' = Append(phaseLog, "recording")
    /\ timer' = 0
    /\ flow' = NoFlow

\* setPhase('prep'); await runTimer(d); setPhase('recording'): runTimer suspends
\* once per second of d, and not at all when d is not positive.
BeginPrep(d) ==
    IF d > 0
    THEN /\ phase' = "prep"
         /\ phaseLog' = Append(phaseLog, "prep")
         /\ timer' = d
         /\ flow' = [flow EXCEPT !.pc = "prep", !.i = d]
    ELSE /\ phase' = "recording"
         /\ phaseLog' = phaseLog \o <<"prep", "recording">>
         /\ timer' = 0
         /\ flow' = NoFlow

\* The text the flow suspended at f hands to playTextAsSpeech next: the passage
\* before each of its two readings, otherwise the audio of the item.
Playback(f) ==
    [sec |-> f.sec, idx |-> f.idx,
     text |-> IF f.pc \in {"renderPassage", "gap"} THEN "passage"
              ELSE IF f.sec = "SpeakingC" THEN "situation"
              ELSE "question"]

(* ---------------------------- the actions ------------------------------ *)
\* startGeneration, up to await generateTestPaper().
StartGeneration ==
    /\ status = "Idle"
    /\ status' = "GeneratingTest"
    /\ rec' = RenderRecorder(rec)
    /\ UNCHANGED <<testPaper, currentSection, itemIndex, subItemIndex, phase, timer,
                   userResponses, scores, scoringProgress, flow, proc, restLog,
                   submitted, outcomes>>
    /\ generation' = "pending"
    /\ UNCHANGED <<playLog, playFailed>>
    /\ UNCHANGED phaseLog
    /\ UNCHANGED carried

\* generateImage: the data URL of the first part that holds an image, '' when
\* no part does, and '' from its catch when the call of the image model fails.
GenerateImage(outcome) ==
    IF outcome = "image" THEN "data:image" ELSE ""

\* The paper startGeneration sets: generateImage is awaited and its answer put
\* into speakingD.imageUrl only when the paper has an imageDescription.
WithImage(paper, outcome) ==
    IF paper.imageDescription
    THEN [paper EXCEPT !.imageUrl = GenerateImage(outcome)]
    ELSE paper

\* Mutant: a failed generateImage ends startGeneration in its outer catch.
GeneratedUnlessImageFails(papers, images) ==
    /\ status = "GeneratingTest"
    /\ \E paper \in papers : \E outcome \in images :
          IF paper.imageDescription /\ outcome = "failed"
          THEN /\ status' = "Idle"
               /\ UNCHANGED <<testPaper, scores, userResponses, carried>>
          ELSE /\ testPaper' = WithImage(paper, outcome)
               /\ scores' = <<>>
               /\ userResponses' = <<>>
               /\ status' = "TestReady"
               /\ carried' = [responses |-> 0, scores |-> 0]
    /\ UNCHANGED <<currentSection, itemIndex, subItemIndex, phase, timer>>
    /\ rec' = RenderRecorder(rec)
    /\ UNCHANGED <<scoringProgress, flow, proc, restLog, submitted,
                   outcomes>>
    /\ generation' = "ok"
    /\ UNCHANGED <<playLog, playFailed>>
    /\ UNCHANGED phaseLog

\* startGeneration after generateTestPaper() resolved with one of `papers` and
\* generateImage, where it is called, ended in one of `images`; no state is set
\* between the two awaits.
Generated(papers, images) ==
    /\ status = "GeneratingTest"
    /\ \E paper \in papers : \E outcome \in images :
          testPaper' = WithImage(paper, outcome)
    /\ scores' = <<>>
    /\ userResponses' = <<>>
    /\ status' = "TestReady"
    /\ UNCHANGED <<currentSection, itemIndex, subItemIndex, phase, timer>>
    /\ rec' = RenderRecorder(rec)
    /\ UNCHANGED <<scoringProgress, flow, proc, restLog, submitted,
                   outcomes>>
    /\ generation' = "ok"
    /\ UNCHANGED <<playLog, playFailed>>
    /\ UNCHANGED phaseLog
    /\ carried' = [responses |-> 0, scores |-> 0]

\* generateTestPaper() resolved with a paper whose questions carry the times
\* the prompt asks for.
GenerateOk == Generated(Papers, {"image"})

\* generateTestPaper() resolved with a paper whose questions carry any times:
\* JSON.parse(response.text) is returned as it is.
GenerateOkWide == Generated(WidePapers, {"image"})

\* generateTestPaper() resolved with a paper whose questions may lack an
\* answerKey or carry an empty one.
GenerateOkKeyed == Generated(KeyedPapers, {"image"})

\* generateTestPaper() resolved and generateImage ended in any of its ways.
GenerateOkImage == Generated(ImagePapers, ImageOutcomes)

\* Mutant: the catch of startGeneration shows the TestReady screen.
GenerateFailShowsReady ==
    /\ status = "GeneratingTest"
    /\ status' = "TestReady"
    /\ UNCHANGED <<testPaper, currentSection, itemIndex, subItemIndex, phase, timer>>
    /\ rec' = RenderRecorder(rec)
    /\ UNCHANGED <<userResponses, scores, scoringProgress, flow, proc, restLog,
                   submitted, outcomes>>
    /\ generation' = "failed"
    /\ UNCHANGED <<playLog, playFailed>>
    /\ UNCHANGED phaseLog
    /\ UNCHANGED carried

\* startGeneration after generateTestPaper() rejected.
GenerateFail ==
    /\ status = "GeneratingTest"
    /\ status' = "Idle"
    /\ UNCHANGED <<testPaper, currentSection, itemIndex, subItemIndex, phase, timer>>
    /\ rec' = RenderRecorder(rec)
    /\ UNCHANGED <<userResponses, scores, scoringProgress, flow, proc, restLog,
                   submitted, outcomes>>
    /\ generation' = "failed"
    /\ UNCHANGED <<playLog, playFailed>>
    /\ UNCHANGED phaseLog
    /\ UNCHANGED carried

\* Mutant: the Start button is still offered while the test is in progress.
StartTestAnyTime ==
    /\ status \in {"TestReady", "InProgress"}
    /\ testPaper # NoPaper
    /\ status' = "InProgress"
    /\ userResponses' = <<>>
    /\ itemIndex' = 0
    /\ subItemIndex' = 0
    /\ RunItem("SpeakingA", 0)
    /\ restLog' = <<>>
    /\ UNCHANGED <<testPaper, timer>>
    /\ rec' = RenderRecorder(rec)
    /\ UNCHANGED <<scores, scoringProgress, proc, submitted, outcomes>>
    /\ playLog' = <<>>
    /\ playFailed' = FALSE
    /\ UNCHANGED generation
    /\ carried' = [carried EXCEPT !.responses = 0]

\* Mutant: startTest leaves the item cursor where the run before left it.
StartTestKeepsCursor ==
    /\ status = "TestReady"
    /\ testPaper # NoPaper
    /\ status' = "InProgress"
    /\ userResponses' = <<>>
    /\ UNCHANGED <<itemIndex, subItemIndex>>
    /\ RunItem("SpeakingA", 0)
    /\ restLog' = <<>>
    /\ UNCHANGED <<testPaper, timer>>
    /\ rec' = RenderRecorder(rec)
    /\ UNCHANGED <<scores, scoringProgress, proc, submitted, outcomes>>
    /\ playLog' = <<>>
    /\ playFailed' = FALSE
    /\ UNCHANGED generation
    /\ carried' = [carried EXCEPT !.responses = 0]

\* startTest, with runSpeakingA(0) up to its first await.
StartTest ==
    /\ status = "TestReady"
    /\ testPaper # NoPaper
    /\ status' = "InProgress"
    /\ userResponses' = <<>>
    /\ itemIndex' = 0
    /\ subItemIndex' = 0
    /\ RunItem("SpeakingA", 0)
    /\ restLog' = <<>>
    /\ UNCHANGED <<testPaper, timer>>
    /\ rec' = RenderRecorder(rec)
    /\ UNCHANGED <<scores, scoringProgress, proc, submitted, outcomes>>
    /\ playLog' = <<>>
    /\ playFailed' = FALSE
    /\ UNCHANGED generation
    /\ carried' = [carried EXCEPT !.responses = 0]

\* await delay(1500) / delay(2000) of runSpeakingA, runSpeakingB, runSpeakingD
\* resolved: the preparation countdown starts.
SettleElapsed ==
    /\ flow.pc = "settle"
    /\ BeginPrep(PrepSeconds(testPaper, flow.sec, flow.idx))
    /\ UNCHANGED <<status, testPaper, currentSection, itemIndex, subItemIndex>>
    /\ rec' = RenderRecorder(rec)
    /\ UNCHANGED <<userResponses, scores, scoringProgress, proc, restLog, submitted,
                   outcomes>>
    /\ UNCHANGED <<generation, playLog, playFailed>>
    /\ UNCHANGED carried

\* One await delay(1000) of runTimer resolved during a preparation.
PrepTick ==
    /\ flow.pc = "prep"
    /\ IF flow.i - 1 > 0
       THEN /\ timer' = flow.i - 1
            /\ flow' = [flow EXCEPT !.i = flow.i - 1]
            /\ phase' = phase
            /\ phaseLog' = phaseLog
       ELSE /\ timer' = 0
            /\ phase' = "recording"
            /\ phaseLog' = Append(phaseLog, "recording")
            /\ flow' = NoFlow
    /\ UNCHANGED <<status, testPaper, currentSection, itemIndex, subItemIndex>>
    /\ rec' = RenderRecorder(rec)
    /\ UNCHANGED <<userResponses, scores, scoringProgress, proc, restLog, submitted,
                   outcomes>>
    /\ UNCHANGED <<generation, playLog, playFailed>>
    /\ UNCHANGED carried

\* await delay(100), the UI render delay before a playback.
RenderDelayElapsed ==
    /\ flow.pc \in {"render", "renderPassage"}
    /\ flow' = [flow EXCEPT !.pc = IF flow.pc = "render" THEN "play" ELSE "passage1"]
    /\ UNCHANGED <<status, testPaper, currentSection, itemIndex, subItemIndex, phase,
                   timer, userResponses, scores, scoringProgress, rec, proc, restLog,
                   submitted, outcomes>>
    /\ playLog' = Append(playLog, Playback(flow))
    /\ UNCHANGED <<generation, playFailed>>
    /\ UNCHANGED phaseLog
    /\ UNCHANGED carried

\* What follows a resolved playTextAsSpeech.
AfterPlayback ==
    CASE flow.pc = "passage1" ->
            /\ flow' = [flow EXCEPT !.pc = "gap"]
            /\ UNCHANGED <<phase, phaseLog, timer, currentSection>>
      [] flow.pc = "passage2" ->
            /\ ListeningBQuestion(flow.idx, phaseLog)
            /\ UNCHANGED timer
      [] flow.pc = "play" /\ flow.sec = "SpeakingC" ->
            /\ flow' = [flow EXCEPT !.pc = "pause"]
            /\ UNCHANGED <<phase, phaseLog, timer, currentSection>>
      [] flow.pc = "play" /\ flow.sec = "ListeningA" ->
            /\ phase' = "recording"
            /\ phaseLog' = Append(phaseLog, "recording")
            /\ flow' = NoFlow
            /\ UNCHANGED <<timer, currentSection>>
      [] flow.pc = "play" /\ flow.sec = "ListeningB" ->
            /\ BeginPrep(PrepSeconds(testPaper, flow.sec, flow.idx))
            /\ UNCHANGED currentSection

\* playTextAsSpeech resolved after the audio ended (or without audio data).
PlaybackOk ==
    /\ flow.pc \in {"passage1", "passage2", "play"}
    /\ AfterPlayback
    /\ UNCHANGED <<status, testPaper, itemIndex, subItemIndex>>
    /\ rec' = RenderRecorder(rec)
    /\ UNCHANGED <<userResponses, scores, scoringProgress, proc, restLog, submitted,
                   outcomes>>
    /\ UNCHANGED <<generation, playLog, playFailed>>
    /\ UNCHANGED carried

\* Mutant: the error of playTextAsSpeech is not caught and ends the flow.
PlaybackFailBlocks ==
    /\ flow.pc \in {"passage1", "passage2", "play"}
    /\ flow' = [flow EXCEPT !.pc = "dead"]
    /\ UNCHANGED <<status, testPaper, currentSection, itemIndex, subItemIndex, phase,
                   timer, userResponses, scores, scoringProgress, rec, proc, restLog,
                   submitted, outcomes>>
    /\ playFailed' = TRUE
    /\ UNCHANGED <<generation, playLog>>
    /\ UNCHANGED phaseLog
    /\ UNCHANGED carried

\* playTextAsSpeech caught an error and resolved.
PlaybackFail ==
    /\ flow.pc \in {"passage1", "passage2", "play"}
    /\ AfterPlayback
    /\ UNCHANGED <<status, testPaper, itemIndex, subItemIndex>>
    /\ rec' = RenderRecorder(rec)
    /\ UNCHANGED <<userResponses, scores, scoringProgress, proc, restLog, submitted,
                   outcomes>>
    /\ playFailed' = TRUE
    /\ UNCHANGED <<generation, playLog>>
    /\ UNCHANGED carried

\* await delay(2000) between the two readings of the passage.
GapElapsed ==
    /\ flow.pc = "gap"
    /\ flow' = [flow EXCEPT !.pc = "passage2"]
    /\ UNCHANGED <<status, testPaper, currentSection, itemIndex, subItemIndex, phase,
                   timer, userResponses, scores, scoringProgress, rec, proc, restLog,
                   submitted, outcomes>>
    /\ playLog' = Append(playLog, Playback(flow))
    /\ UNCHANGED <<generation, playFailed>>
    /\ UNCHANGED phaseLog
    /\ UNCHANGED carried

\* await delay(1000) after the situation audio of runSpeakingC.
PauseElapsed ==
    /\ flow.pc = "pause"
    /\ phase' = "recording"
    /\ phaseLog' = Append(phaseLog, "recording")
    /\ flow' = NoFlow
    /\ UNCHANGED <<status, testPaper, currentSection, itemIndex, subItemIndex, timer>>
    /\ rec' = RenderRecorder(rec)
    /\ UNCHANGED <<userResponses, scores, scoringProgress, proc, restLog, submitted,
                   outcomes>>
    /\ UNCHANGED <<generation, playLog, playFailed>>
    /\ UNCHANGED carried

(* ------------------------ the recording window ------------------------- *)
\* start(): getUserMedia resolved, the MediaRecorder was started and the
\* one-second interval set.
GetUserMediaOk ==
    /\ rec.starting
    /\ rec' = [rec EXCEPT !.starting = FALSE, !.stream = TRUE, !.mr = "recording",
                          !.isRecording = TRUE, !.interval = TRUE,
                          !.timeLeft = rec.maxDuration]
    /\ UNCHANGED <<status, testPaper, currentSection, itemIndex, subItemIndex, phase,
                   timer, userResponses, scores, scoringProgress, flow, proc, restLog,
                   submitted, outcomes>>
    /\ UNCHANGED <<generation, playLog, playFailed>>
    /\ UNCHANGED phaseLog
    /\ UNCHANGED carried

\* start(): getUserMedia rejected; the catch logs and alerts.
GetUserMediaFail ==
    /\ rec.starting
    /\ rec' = [rec EXCEPT !.starting = FALSE]
    /\ UNCHANGED <<status, testPaper, currentSection, itemIndex, subItemIndex, phase,
                   timer, userResponses, scores, scoringProgress, flow, proc, restLog,
                   submitted, outcomes>>
    /\ UNCHANGED <<generation, playLog, playFailed>>
    /\ UNCHANGED phaseLog
    /\ UNCHANGED carried

\* start(): the AudioContext or the MediaRecorder could not be set up after
\* getUserMedia resolved; the catch logs and alerts.
RecorderSetupFail ==
    /\ rec.starting
    /\ rec' = [rec EXCEPT !.starting = FALSE, !.stream = TRUE]
    /\ UNCHANGED <<status, testPaper, currentSection, itemIndex, subItemIndex, phase,
                   timer, userResponses, scores, scoringProgress, flow, proc, restLog,
                   submitted, outcomes>>
    /\ UNCHANGED <<generation, playLog, playFailed>>
    /\ UNCHANGED phaseLog
    /\ UNCHANGED carried

\* stop()
Stop(r) ==
    [r EXCEPT !.mr = IF r.mr = "recording" THEN "stopping" ELSE r.mr,
              !.isRecording = FALSE]

\* Mutant: the callback stops the recorder when no time is left.
TimeIsUpAtZero(prev) == prev <= 0

\* if (prev <= 1) of the setTimeLeft updater.
TimeIsUp(prev) == prev <= 1

\* The setInterval callback of start(); the stop event of a stopped recorder
\* is dispatched before the next tick.  ticks counts the callbacks of the window.
RecorderTick ==
    /\ rec.interval
    /\ rec.mr = "recording"
    /\ rec' = IF TimeIsUp(rec.timeLeft)
              THEN [Stop(rec) EXCEPT !.timeLeft = 0, !.ticks = rec.ticks + 1]
              ELSE [rec EXCEPT !.timeLeft = rec.timeLeft - 1, !.ticks = rec.ticks + 1]
    /\ UNCHANGED <<status, testPaper, currentSection, itemIndex, subItemIndex, phase,
                   timer, userResponses, scores, scoringProgress, flow, proc, restLog,
                   submitted, outcomes>>
    /\ UNCHANGED <<generation, playLog, playFailed>>
    /\ UNCHANGED phaseLog
    /\ UNCHANGED carried

\* The subject clicks 'Stop Early', shown while isRecording.
StopEarly ==
    /\ rec.mounted
    /\ rec.isRecording
    /\ rec' = Stop(rec)
    /\ UNCHANGED <<status, testPaper, currentSection, itemIndex, subItemIndex, phase,
                   timer, userResponses, scores, scoringProgress, flow, proc, restLog,
                   submitted, outcomes>>
    /\ UNCHANGED <<generation, playLog, playFailed>>
    /\ UNCHANGED phaseLog
    /\ UNCHANGED carried

(* ----------------------- handleRecordingComplete ----------------------- *)
Undefined == [rule |-> "undefined", index |-> -1]

Empty == [rule |-> "", index |-> -1]

\* The left operand of || is taken when it is truthy: a string that is there
\* and is not empty.
Truthy(v) == v \notin {"undefined", ""}

\* Mutant: the chain has no branch for ListeningA, whose records keep the
\* initial empty referenceText.
ReferenceTextFallsThrough(paper, sec, idx) ==
    CASE sec = "SpeakingA" ->
            IF idx < paper.speakingA THEN [rule |-> "sentence", index |-> idx]
            ELSE Undefined
      [] sec = "SpeakingB" -> [rule |-> "passage text", index |-> -1]
      [] sec = "SpeakingC" -> [rule |-> "ask two questions", index |-> -1]
      [] sec = "SpeakingD" -> [rule |-> "story starting with", index |-> -1]
      [] sec = "ListeningA" -> Empty
      [] sec = "ListeningB" -> [rule |-> "answer key", index |-> idx]

\* Mutant: the ListeningB rule takes q.answerKey whatever it is.
ReferenceTextKeyOnly(paper, sec, idx) ==
    CASE sec = "SpeakingA" ->
            IF idx < paper.speakingA THEN [rule |-> "sentence", index |-> idx]
            ELSE Undefined
      [] sec = "SpeakingB" -> [rule |-> "passage text", index |-> -1]
      [] sec = "SpeakingC" -> [rule |-> "ask two questions", index |-> -1]
      [] sec = "SpeakingD" -> [rule |-> "story starting with", index |-> -1]
      [] sec = "ListeningA" -> [rule |-> "appropriate response", index |-> -1]
      [] sec = "ListeningB" -> [rule |-> "answer key", index |-> idx]

\* 'Determine reference data': the reference text of a record.  The
\* ListeningB rule reads the question at idx; no window opens for a question
\* the paper does not hold.
ReferenceText(paper, sec, idx) ==
    CASE sec = "SpeakingA" ->
            IF idx < paper.speakingA THEN [rule |-> "sentence", index |-> idx]
            ELSE Undefined
      [] sec = "SpeakingB" -> [rule |-> "passage text", index |-> -1]
      [] sec = "SpeakingC" -> [rule |-> "ask two questions", index |-> -1]
      [] sec = "SpeakingD" -> [rule |-> "story starting with", index |-> -1]
      [] sec = "ListeningA" -> [rule |-> "appropriate response", index |-> -1]
      [] sec = "ListeningB" ->
            IF idx < Len(paper.listeningB)
            THEN LET q == paper.listeningB[idx + 1]
                 IN  IF Truthy(q.answerKey)
                     THEN [rule |-> "answer key", index |-> idx]
                     ELSE IF q.type = "fact"
                          THEN [rule |-> "Factual answer from text", index |-> -1]
                          ELSE [rule |-> "Opinionated answer", index |-> -1]
            ELSE Undefined

\* 'Determine reference data': the context of a record.
ContextText(paper, sec, idx) ==
    CASE sec \in {"SpeakingA", "SpeakingB"} -> Empty
      [] sec = "SpeakingC" -> [rule |-> "situation", index |-> idx]
      [] sec = "SpeakingD" -> [rule |-> "image description", index |-> -1]
      [] sec = "ListeningA" ->
            IF idx < paper.listeningA THEN [rule |-> "prompt", index |-> idx]
            ELSE [rule |-> "prompt undefined", index |-> -1]
      [] sec = "ListeningB" -> [rule |-> "passage and question", index |-> idx]

\* Mutant: the record takes its subIndex from the item index.
MakeResponseSubFromItem(paper, sec, idx, sub, blob) ==
    [sectionType |-> sec, itemIndex |-> idx, subIndex |-> idx, audioBlob |-> blob,
     referenceText |-> ReferenceText(paper, sec, idx),
     context |-> ContextText(paper, sec, idx)]

\* The UserResponse built from the handler's closure.
MakeResponse(paper, sec, idx, sub, blob) ==
    [sectionType |-> sec, itemIndex |-> idx, subIndex |-> sub, audioBlob |-> blob,
     referenceText |-> ReferenceText(paper, sec, idx),
     context |-> ContextText(paper, sec, idx)]

\* Mutant: the new record is put in front of the log.
PrependResponse(prev, resp) == <<resp>> \o prev

\* setUserResponses(prev => [...prev, resp])
AppendResponse(prev, resp) == Append(prev, resp)

\* The sections whose branch tests itemIndex < length - 1.
MultiItemSections == {"SpeakingA", "SpeakingC", "ListeningA", "ListeningB"}

\* Mutant: the branch tests itemIndex <= items.length - 1.
HasNextItemOffByOne(paper, sec, idx) ==
    /\ sec \in MultiItemSections
    /\ idx <= ItemCount(paper, sec) - 1

\* Mutant: the branch tests itemIndex < items.length - 2.
HasNextItemStopsEarly(paper, sec, idx) ==
    /\ sec \in MultiItemSections
    /\ idx < ItemCount(paper, sec) - 2

\* itemIndex < items.length - 1 in the branch of the section.
HasNextItem(paper, sec, idx) ==
    /\ sec \in MultiItemSections
    /\ idx < ItemCount(paper, sec) - 1

\* Mutant: the updater steps over an item.
NextItemIndexSkips(prev) == prev + 2

\* const next = prev + 1 of the setItemIndex updaters.
NextItemIndex(prev) == prev + 1

\* Mutant: the branch hands over to the section after the next (ListeningA
\* to the last).
NextSectionSkips(sec) ==
    Sections[IF SectionIndex(sec) + 2 <= Len(Sections) THEN SectionIndex(sec) + 2
             ELSE Len(Sections)]

\* The section a branch of handleRecordingComplete hands over to.
NextSection(sec) == Sections[SectionIndex(sec) + 1]

\* The branches that run handleSectionRest before the next section.
RestsAfter(sec) == sec # "ListeningB"

\* Mutant: handleSectionRest awaits runTimer(9).
HandleSectionRestShort(sec, idx) ==
    /\ phase' = "rest"
    /\ phaseLog' = Append(phaseLog, "rest")
    /\ timer' = RestSeconds - 1
    /\ flow' = [pc |-> "rest", sec |-> sec, idx |-> 0, i |-> RestSeconds - 1]
    /\ restLog' = Append(restLog, [sec |-> sec, idx |-> idx])

\* handleSectionRest, up to the first await of runTimer(10).
HandleSectionRest(sec, idx) ==
    /\ phase' = "rest"
    /\ phaseLog' = Append(phaseLog, "rest")
    /\ timer' = RestSeconds
    /\ flow' = [pc |-> "rest", sec |-> sec, idx |-> 0, i |-> RestSeconds]
    /\ restLog' = Append(restLog, [sec |-> sec, idx |-> idx])

\* handleRecordingComplete(blob) of the render whose cursor was (sec, idx, sub),
\* up to its first await.
HandleRecordingComplete(sec, idx, sub, blob) ==
    /\ userResponses' =
          AppendResponse(userResponses, MakeResponse(testPaper, sec, idx, sub, blob))
    /\ IF HasNextItem(testPaper, sec, idx)
       THEN /\ itemIndex' = NextItemIndex(itemIndex)
            /\ RunItem(sec, NextItemIndex(itemIndex))
            /\ UNCHANGED <<status, subItemIndex, timer, restLog, proc>>
       ELSE IF RestsAfter(sec)
       THEN /\ HandleSectionRest(sec, idx)
            /\ UNCHANGED <<status, currentSection, itemIndex, subItemIndex, proc>>
       ELSE /\ status' = "Scoring"
            /\ proc' = [NoProc EXCEPT !.pc = "pending"]
            /\ UNCHANGED <<currentSection, itemIndex, subItemIndex, phase, timer, flow,
                           restLog, phaseLog>>

\* mediaRecorder.onstop: the blob is handed to onRecordingComplete, then cleanup().
OnStop ==
    /\ rec.mr = "stopping"
    /\ IF testPaper # NoPaper
       THEN HandleRecordingComplete(rec.sectionType, rec.itemIndex, rec.subIndex,
                                    "audio/webm")
       ELSE UNCHANGED <<status, currentSection, itemIndex, subItemIndex, phase, timer,
                        userResponses, flow, proc, restLog, phaseLog>>
    /\ UNCHANGED testPaper
    /\ rec' = RenderRecorder([Cleanup(rec) EXCEPT !.mr = "inactive"])
    /\ UNCHANGED <<scores, scoringProgress, submitted, outcomes>>
    /\ playFailed' = FALSE
    /\ UNCHANGED <<generation, playLog>>
    /\ UNCHANGED carried

\* One await delay(1000) of runTimer(10) resolved during a rest; after the last
\* one handleRecordingComplete goes on to the next section.
RestTick ==
    /\ flow.pc = "rest"
    /\ IF flow.i - 1 > 0
       THEN /\ timer' = flow.i - 1
            /\ flow' = [flow EXCEPT !.i = flow.i - 1]
            /\ UNCHANGED <<phase, phaseLog, currentSection, itemIndex, subItemIndex>>
       ELSE /\ timer' = 0
            /\ itemIndex' = 0
            /\ subItemIndex' = IF flow.sec = "SpeakingB" THEN 0 ELSE subItemIndex
            /\ RunItem(NextSection(flow.sec), 0)
    /\ UNCHANGED <<status, testPaper>>
    /\ rec' = RenderRecorder(rec)
    /\ UNCHANGED <<userResponses, scores, scoringProgress, proc, restLog, submitted,
                   outcomes>>
    /\ UNCHANGED <<generation, playLog, playFailed>>
    /\ UNCHANGED carried

(* ------------------------- processExamResults -------------------------- *)
\* Mutant: getOrAddSection never finds the section it added before.
PushResultAlwaysAdds(newScores, type, result) ==
    Append(newScores, [sectionType |-> type, items |-> <<result>>])

\* getOrAddSection(type) followed by section.items.push(result).
PushResult(newScores, type, result) ==
    IF \E k \in 1..Len(newScores) : newScores[k].sectionType = type
    THEN LET k == CHOOSE j \in 1..Len(newScores) :
                      /\ newScores[j].sectionType = type
                      /\ \A h \in 1..(j - 1) : newScores[h].sectionType # type
         IN  [newScores EXCEPT ![k].items = Append(@, result)]
    ELSE Append(newScores, [sectionType |-> type, items |-> <<result>>])

\* The settled calls of the pass that did not return a model-produced result.
Failures(out) == Cardinality({k \in 1..Len(out) : out[k] # "scored"})

\* Mutant: the loop steps by two.
NextSubmissionSkips(i) == i + 2

\* The log index the loop submits after the i-th submission has settled.
NextSubmission(i) == i + 1

\* The top of the for loop for the i-th entry (counted from 1) of the log the
\* pass closed over, or the statements after the loop.
ScoringLoop(i, log, newScores) ==
    IF i <= Len(log)
    THEN /\ scoringProgress' = [current |-> i, total |-> Len(log)]
         /\ proc' = [pc |-> "await", i |-> i, log |-> log, newScores |-> newScores]
         /\ submitted' = Append(submitted, i)
         /\ UNCHANGED <<scores, status, carried>>
    ELSE /\ scores' = newScores
         /\ carried' = [carried EXCEPT !.scores = 0]
         /\ status' = "Review"
         /\ proc' = NoProc
         /\ UNCHANGED <<scoringProgress, submitted>>

\* Mutant: processExamResults closes over the log of the render before the
\* last append.
ProcessExamResultsStale ==
    /\ status = "Scoring"
    /\ proc.pc = "pending"
    /\ ScoringLoop(1, SubSeq(userResponses, 1, Len(userResponses) - 1), <<>>)
    /\ UNCHANGED outcomes
    /\ UNCHANGED <<testPaper, currentSection, itemIndex, subItemIndex, phase, timer>>
    /\ rec' = RenderRecorder(rec)
    /\ UNCHANGED <<userResponses, flow, restLog>>
    /\ UNCHANGED <<generation, playLog, playFailed>>
    /\ UNCHANGED phaseLog

\* useEffect on [status]: processExamResults of the render that shows Scoring.
ProcessExamResults ==
    /\ status = "Scoring"
    /\ proc.pc = "pending"
    /\ ScoringLoop(1, userResponses, <<>>)
    /\ UNCHANGED outcomes
    /\ UNCHANGED <<testPaper, currentSection, itemIndex, subItemIndex, phase, timer>>
    /\ rec' = RenderRecorder(rec)
    /\ UNCHANGED <<userResponses, flow, restLog>>
    /\ UNCHANGED <<generation, playLog, playFailed>>
    /\ UNCHANGED phaseLog

\* await evaluateAudio(...) resolved with `result`: it is pushed and the loop
\* goes on.
Resolved(result) ==
    /\ ScoringLoop(NextSubmission(proc.i), proc.log,
                   PushResult(proc.newScores, proc.log[proc.i].sectionType, result))
    /\ outcomes' = Append(outcomes, result.kind)
    /\ UNCHANGED <<testPaper, currentSection, itemIndex, subItemIndex, phase, timer>>
    /\ rec' = RenderRecorder(rec)
    /\ UNCHANGED <<userResponses, flow, restLog>>
    /\ UNCHANGED <<generation, playLog, playFailed>>
    /\ UNCHANGED phaseLog

\* evaluateAudio returned the parsed answer of the scoring model.
EvaluateOk ==
    /\ proc.pc = "await"
    /\ Resolved([resp |-> proc.i, kind |-> "scored"])

\* Mutant: evaluateAudio lets the failure of the scoring model call through
\* and the catch of processExamResults drops the response.
EvaluateFallbackRejects ==
    /\ proc.pc = "await"
    /\ Failures(outcomes) < MaxFailures
    /\ ScoringLoop(NextSubmission(proc.i), proc.log, proc.newScores)
    /\ outcomes' = Append(outcomes, "evaluation failed")
    /\ UNCHANGED <<testPaper, currentSection, itemIndex, subItemIndex, phase, timer>>
    /\ rec' = RenderRecorder(rec)
    /\ UNCHANGED <<userResponses, flow, restLog>>
    /\ UNCHANGED <<generation, playLog, playFailed>>
    /\ UNCHANGED phaseLog

\* evaluateAudio caught a failure of the scoring model call and returned the
\* all-zero 'Evaluation failed' result.
EvaluateFallback ==
    /\ proc.pc = "await"
    /\ Failures(outcomes) < MaxFailures
    /\ Resolved([resp |-> proc.i, kind |-> "evaluation failed"])

\* Mutant: the catch pushes a placeholder result for the rejected call.
EvaluateRejectPushes ==
    /\ proc.pc = "await"
    /\ Failures(outcomes) < MaxFailures
    /\ ScoringLoop(NextSubmission(proc.i), proc.log,
                   PushResult(proc.newScores, proc.log[proc.i].sectionType,
                              [resp |-> proc.i, kind |-> "evaluation failed"]))
    /\ outcomes' = Append(outcomes, "rejected")
    /\ UNCHANGED <<testPaper, currentSection, itemIndex, subItemIndex, phase, timer>>
    /\ rec' = RenderRecorder(rec)
    /\ UNCHANGED <<userResponses, flow, restLog>>
    /\ UNCHANGED <<generation, playLog, playFailed>>
    /\ UNCHANGED phaseLog

\* Mutant: the rejection is not caught and ends processExamResults.
EvaluateRejectAborts ==
    /\ proc.pc = "await"
    /\ Failures(outcomes) < MaxFailures
    /\ proc' = [proc EXCEPT !.pc = "dead"]
    /\ outcomes' = Append(outcomes, "rejected")
    /\ UNCHANGED <<status, testPaper, currentSection, itemIndex, subItemIndex, phase,
                   timer, userResponses, scores, scoringProgress, flow, rec, restLog,
                   submitted>>
    /\ UNCHANGED <<generation, playLog, playFailed>>
    /\ UNCHANGED phaseLog
    /\ UNCHANGED carried

\* evaluateAudio rejected (blobToBase64, outside its try); the catch of
\* processExamResults logs and the loop goes on.
EvaluateReject ==
    /\ proc.pc = "await"
    /\ Failures(outcomes) < MaxFailures
    /\ ScoringLoop(NextSubmission(proc.i), proc.log, proc.newScores)
    /\ outcomes' = Append(outcomes, "rejected")
    /\ UNCHANGED <<testPaper, currentSection, itemIndex, subItemIndex, phase, timer>>
    /\ rec' = RenderRecorder(rec)
    /\ UNCHANGED <<userResponses, flow, restLog>>
    /\ UNCHANGED <<generation, playLog, playFailed>>
    /\ UNCHANGED phaseLog

\* Mutant: onRestart is also offered while the test is in progress.
RestartAnyTime ==
    /\ status \in {"Review", "InProgress"}
    /\ status' = "Idle"
    /\ UNCHANGED <<testPaper, currentSection, itemIndex, subItemIndex, phase, timer>>
    /\ rec' = RenderRecorder(rec)
    /\ restLog' = <<>>
    /\ submitted' = <<>>
    /\ outcomes' = <<>>
    /\ UNCHANGED <<userResponses, scores, scoringProgress, flow, proc>>
    /\ playLog' = <<>>
    /\ playFailed' = FALSE
    /\ UNCHANGED generation
    /\ UNCHANGED phaseLog
    /\ carried' = [responses |-> Len(userResponses), scores |-> Len(scores)]

\* onRestart of TestResult; the histories of the run that was reviewed end here.
Restart ==
    /\ status = "Review"
    /\ status' = "Idle"
    /\ UNCHANGED <<testPaper, currentSection, itemIndex, subItemIndex, phase, timer>>
    /\ rec' = RenderRecorder(rec)
    /\ restLog' = <<>>
    /\ submitted' = <<>>
    /\ outcomes' = <<>>
    /\ UNCHANGED <<userResponses, scores, scoringProgress, flow, proc>>
    /\ playLog' = <<>>
    /\ playFailed' = FALSE
    /\ UNCHANGED generation
    /\ UNCHANGED phaseLog
    /\ carried' = [responses |-> Len(userResponses), scores |-> Len(scores)]

(* -------------------------- specifications ----------------------------- *)
Init ==
    /\ status = "Idle"
    /\ testPaper = NoPaper
    /\ currentSection = "SpeakingA"
    /\ itemIndex = 0
    /\ subItemIndex = 0
    /\ phase = "instruction"
    /\ timer = 0
    /\ userResponses = <<>>
    /\ scores = <<>>
    /\ scoringProgress = [current |-> 0, total |-> 0]
    /\ flow = NoFlow
    /\ rec = NoRecorder
    /\ proc = NoProc
    /\ restLog = <<>>
    /\ submitted = <<>>
    /\ outcomes = <<>>
    /\ generation = "none"
    /\ playLog = <<>>
    /\ playFailed = FALSE
    /\ phaseLog = <<>>
    /\ carried = [responses |-> 0, scores |-> 0]

Next ==
    \/ StartGeneration
    \/ GenerateOk
    \/ GenerateFail
    \/ StartTest
    \/ SettleElapsed
    \/ PrepTick
    \/ RenderDelayElapsed
    \/ PlaybackOk
    \/ PlaybackFail
    \/ GapElapsed
    \/ PauseElapsed
    \/ GetUserMediaOk
    \/ GetUserMediaFail
    \/ RecorderSetupFail
    \/ RecorderTick
    \/ StopEarly
    \/ OnStop
    \/ RestTick
    \/ ProcessExamResults
    \/ EvaluateOk
    \/ EvaluateFallback
    \/ EvaluateReject
    \/ Restart

Spec == Init /\ [][Next]_vars

\* The same program when generateTestPaper returns whatever times the model
\* wrote into the questions.
WideNext ==
    \/ StartGeneration
    \/ GenerateOkWide
    \/ GenerateFail
    \/ StartTest
    \/ SettleElapsed
    \/ PrepTick
    \/ RenderDelayElapsed
    \/ PlaybackOk
    \/ PlaybackFail
    \/ GapElapsed
    \/ PauseElapsed
    \/ GetUserMediaOk
    \/ GetUserMediaFail
    \/ RecorderSetupFail
    \/ RecorderTick
    \/ StopEarly
    \/ OnStop
    \/ RestTick
    \/ ProcessExamResults
    \/ EvaluateOk
    \/ EvaluateFallback
    \/ EvaluateReject
    \/ Restart

WideSpec == Init /\ [][WideNext]_vars

\* The same program when generateTestPaper returns questions with or without
\* an answer key.
KeyedNext ==
    \/ StartGeneration
    \/ GenerateOkKeyed
    \/ GenerateFail
    \/ StartTest
    \/ SettleElapsed
    \/ PrepTick
    \/ RenderDelayElapsed
    \/ PlaybackOk
    \/ PlaybackFail
    \/ GapElapsed
    \/ PauseElapsed
    \/ GetUserMediaOk
    \/ GetUserMediaFail
    \/ RecorderSetupFail
    \/ RecorderTick
    \/ StopEarly
    \/ OnStop
    \/ RestTick
    \/ ProcessExamResults
    \/ EvaluateOk
    \/ EvaluateFallback
    \/ EvaluateReject
    \/ Restart

KeyedSpec == Init /\ [][KeyedNext]_vars

\* The same program when the image of SpeakingD may be missing.
ImageNext ==
    \/ StartGeneration
    \/ GenerateOkImage
    \/ GenerateFail
    \/ StartTest
    \/ SettleElapsed
    \/ PrepTick
    \/ RenderDelayElapsed
    \/ PlaybackOk
    \/ PlaybackFail
    \/ GapElapsed
    \/ PauseElapsed
    \/ GetUserMediaOk
    \/ GetUserMediaFail
    \/ RecorderSetupFail
    \/ RecorderTick
    \/ StopEarly
    \/ OnStop
    \/ RestTick
    \/ ProcessExamResults
    \/ EvaluateOk
    \/ EvaluateFallback
    \/ EvaluateReject
    \/ Restart

ImageSpec == Init /\ [][ImageNext]_vars

\* Timers fire, and every collaborator call settles one way or the other; the
\* subject is not obliged to click anything once the test has started.
TimersFire ==
    \/ SettleElapsed
    \/ PrepTick
    \/ RenderDelayElapsed
    \/ GapElapsed
    \/ PauseElapsed
    \/ RecorderTick
    \/ OnStop
    \/ RestTick
    \/ ProcessExamResults

CallsSettle ==
    \/ PlaybackOk
    \/ PlaybackFail
    \/ GetUserMediaOk
    \/ GetUserMediaFail
    \/ RecorderSetupFail
    \/ EvaluateOk
    \/ EvaluateFallback
    \/ EvaluateReject

FairSpec == Spec /\ WF_vars(TimersFire) /\ WF_vars(CallsSettle)

\* An AudioRecorder taken on its own: the props maxDuration and
\* onRecordingComplete are its host's to choose.  The host here is App at the
\* recording window of the first SpeakingA item, handing over any maxDuration.
RecorderInit ==
    /\ status = "InProgress"
    /\ \E paper \in Papers : testPaper = WithImage(paper, "image")
    /\ currentSection = "SpeakingA"
    /\ itemIndex = 0
    /\ subItemIndex = 0
    /\ phase = "recording"
    /\ timer = 0
    /\ userResponses = <<>>
    /\ scores = <<>>
    /\ scoringProgress = [current |-> 0, total |-> 0]
    /\ flow = NoFlow
    /\ \E d \in 0..MaxDuration :
          rec = [MountRecorder(testPaper, "SpeakingA", 0, 0)
                    EXCEPT !.maxDuration = d, !.timeLeft = d]
    /\ proc = NoProc
    /\ restLog = <<>>
    /\ submitted = <<>>
    /\ outcomes = <<>>
    /\ generation = "ok"
    /\ playLog = <<>>
    /\ playFailed = FALSE
    /\ phaseLog = <<"instruction", "prep", "recording">>
    /\ carried = [responses |-> 0, scores |-> 0]

\* What happens to a mounted AudioRecorder.
RecorderNext ==
    \/ GetUserMediaOk
    \/ GetUserMediaFail
    \/ RecorderSetupFail
    \/ RecorderTick
    \/ StopEarly
    \/ OnStop

RecorderSpec == RecorderInit /\ [][RecorderNext]_vars

(* ------------------------------ claims --------------------------------- *)
\* The index of the last item of a section as the flow runs it: a section
\* without items is still run once, at index 0.
LastIndex(paper, sec) == IF ItemCount(paper, sec) > 0 THEN ItemCount(paper, sec) - 1 ELSE 0

RECURSIVE SumItems(_, _)
SumItems(paper, k) ==
    IF k = 0 THEN 0 ELSE ItemCount(paper, Sections[k]) + SumItems(paper, k - 1)

\* The total item count of a paper across the six sections.
TotalItemCount(paper) == SumItems(paper, Len(Sections))

\* C1: when a run reaches Scoring the response log has exactly as many
\* entries as the paper has items.  Stated as claimed; the code records one
\* response for a speakingA or listeningA section that has no items.
C1_RecordsEqualItemCount ==
    status = "Scoring" => Len(userResponses) = TotalItemCount(testPaper)

\* (section, item) of the k-th record, as numbers.
RecordBefore(a, b) ==
    \/ SectionIndex(a.sectionType) < SectionIndex(b.sectionType)
    \/ /\ a.sectionType = b.sectionType
       /\ a.itemIndex < b.itemIndex

\* C2: records are appended in capture order, each carrying the cursor at
\* which its recording window was opened: the (section, item) pairs of the log
\* are strictly increasing, the window's handler holds the cursor while the
\* window is open, and with two speakingA items the log starts A[0], A[1], B[0].
C2_CaptureOrder ==
    /\ \A k \in 1..(Len(userResponses) - 1) :
          RecordBefore(userResponses[k], userResponses[k + 1])
    /\ rec.mounted =>
          /\ rec.sectionType = currentSection
          /\ rec.itemIndex = itemIndex
          /\ \A k \in 1..Len(userResponses) :
                RecordBefore(userResponses[k],
                             [sectionType |-> currentSection, itemIndex |-> itemIndex])
    /\ (testPaper.speakingA = 2 /\ Len(userResponses) >= 3) =>
          /\ userResponses[1].sectionType = "SpeakingA" /\ userResponses[1].itemIndex = 0
          /\ userResponses[2].sectionType = "SpeakingA" /\ userResponses[2].itemIndex = 1
          /\ userResponses[3].sectionType = "SpeakingB" /\ userResponses[3].itemIndex = 0

C2_Witness ==
    /\ status = "InProgress"
    /\ testPaper.speakingA = 2
    /\ Len(userResponses) = 3
    /\ userResponses[3].sectionType = "SpeakingB"

\* The rests owed after the first n sections: one after the last item of each.
RestsAfterSections(paper, n) ==
    [k \in 1..n |-> [sec |-> Sections[k], idx |-> LastIndex(paper, Sections[k])]]

\* C3: handleSectionRest is entered exactly once between each pair of
\* adjacent sections, after the last item of the earlier one, never between two
\* items of one section and never after ListeningB: five rests in a run that
\* reaches scoring.
C3_RestBetweenSections ==
    /\ status = "Scoring" =>
          /\ restLog = RestsAfterSections(testPaper, Len(Sections) - 1)
          /\ Len(restLog) = 5
    /\ status = "InProgress" =>
          restLog = RestsAfterSections(testPaper,
                        SectionIndex(currentSection) - (IF flow.pc = "rest" THEN 0 ELSE 1))

C3_Witness ==
    /\ status = "Scoring"
    /\ Len(restLog) = 5
    /\ testPaper.speakingA = 2
    /\ testPaper.listeningA = 2
    /\ Len(testPaper.listeningB) = 2

\* C4: while phase is 'rest' no recorder is mounted, no stream is held or
\* recorded, and no step appends a response record.
C4_NoCaptureDuringRest ==
    /\ [](phase = "rest" =>
            /\ ~rec.mounted
            /\ ~rec.stream
            /\ rec.mr \notin {"recording", "stopping"})
    /\ [][phase = "rest" => userResponses' = userResponses]_vars

C4_Witness ==
    /\ phase = "rest"
    /\ flow.pc = "rest"
    /\ flow.i = 1
    /\ Len(userResponses) >= 1

\* start() has failed for the open recording window.
CaptureFailed == rec.mounted /\ ~rec.starting /\ rec.mr = "none"

\* C5: a capture that fails when the window opens leaves a (synthesized)
\* response record for the item, so the run goes on.  Stated as claimed; the
\* code only logs and alerts, and the window stays open for ever.
C5_CaptureFailureLeavesRecord ==
    (CaptureFailed /\ rec.itemIndex < ItemCount(testPaper, rec.sectionType)) =>
        \E k \in 1..Len(userResponses) :
            /\ userResponses[k].sectionType = rec.sectionType
            /\ userResponses[k].itemIndex = rec.itemIndex

\* C6: a started run reaches Review when timers fire and every collaborator
\* call settles.  Stated as claimed; see C5.
C6_RunReachesReview == (status = "InProgress") ~> (status = "Review")

RECURSIVE CountItems(_, _)
CountItems(sc, k) == IF k = 0 THEN 0 ELSE Len(sc[k].items) + CountItems(sc, k - 1)

\* The number of score items in a SectionScore list.
TotalScoreItems(sc) == CountItems(sc, Len(sc))

Rejected(out) == Cardinality({k \in 1..Len(out) : out[k] = "rejected"})

\* Some SectionScore holds an item for the k-th response.
HasScoreItem(sc, k) ==
    \E j \in 1..Len(sc) : \E h \in 1..Len(sc[j].items) : sc[j].items[h].resp = k

C8_ScoringCompletes ==
    /\ [](status = "Review" =>
            /\ scoringProgress = [current |-> Len(userResponses),
                                  total |-> Len(userResponses)]
            /\ Len(outcomes) = Len(userResponses))
    /\ (status = "Scoring") ~> (status = "Review")

C8_Witness ==
    /\ status = "Review"
    /\ Failures(outcomes) >= 1
    /\ scoringProgress.current = Len(userResponses)

\* C9: the entries of the log are submitted once each, in log order, and a
\* submission is issued only when the one before it has settled.
C9_SequentialSubmission ==
    /\ \A k \in 1..Len(submitted) : submitted[k] = k
    /\ Len(submitted) - Len(outcomes) \in {0, 1}
    /\ proc.pc = "await" =>
          /\ status = "Scoring"
          /\ proc.log = userResponses
          /\ Len(submitted) = Len(outcomes) + 1
          /\ proc.i = Len(submitted)
    /\ status = "Review" =>
          /\ Len(submitted) = Len(userResponses)
          /\ Len(outcomes) = Len(submitted)

C9_Witness ==
    /\ status = "Scoring"
    /\ proc.pc = "await"
    /\ Len(submitted) = 3
    /\ Len(outcomes) = 2

\* The result an outcome leaves for the k-th response.
ResultOf(k, outcome) == [resp |-> k, kind |-> outcome]

RECURSIVE Regroup(_, _, _)
\* The grouping of the first n responses of a log under given outcomes, taken
\* in one pass over the log.
Regroup(log, out, n) ==
    IF n = 0 THEN <<>>
    ELSE IF out[n] = "rejected" THEN Regroup(log, out, n - 1)
    ELSE PushResult(Regroup(log, out, n - 1), log[n].sectionType, ResultOf(n, out[n]))

\* Within each SectionScore the items keep the order of their responses and
\* belong to the section; no two SectionScores share a tag.
Grouped(sc, log) ==
    /\ \A j \in 1..Len(sc) :
          /\ \A a, b \in 1..Len(sc[j].items) :
                a < b => sc[j].items[a].resp < sc[j].items[b].resp
          /\ \A a \in 1..Len(sc[j].items) :
                /\ sc[j].items[a].resp \in 1..Len(log)
                /\ log[sc[j].items[a].resp].sectionType = sc[j].sectionType
    /\ \A j, k \in 1..Len(sc) : j # k => sc[j].sectionType # sc[k].sectionType

\* C10: the grouping keeps the log order within each section tag, gives each
\* tag at most one SectionScore, and is the grouping any pass over the same log
\* with the same outcomes gives.
C10_GroupingPreservesOrder ==
    /\ Grouped(scores, userResponses)
    /\ Grouped(proc.newScores, proc.log)
    /\ status = "Review" => scores = Regroup(userResponses, outcomes, Len(outcomes))

C10_Witness ==
    /\ status = "Review"
    /\ \E j \in 1..Len(scores) : Len(scores[j].items) >= 2
    /\ Rejected(outcomes) >= 1

\* C11: a failed generateTestPaper returns the status to Idle and sets no test
\* paper, and no run begins: InProgress is entered only by startTest from
\* TestReady, and TestReady stands only after a generateTestPaper call that
\* succeeded.
C11_FailedGenerationStartsNoRun ==
    /\ [](/\ generation = "failed" => status = "Idle"
          /\ status \in {"TestReady", "InProgress"} =>
                generation = "ok" /\ testPaper # NoPaper)
    /\ [][generation' = "failed" =>
            /\ testPaper' = testPaper
            /\ userResponses' = userResponses
            /\ flow' = flow]_vars
    /\ [][(status # "InProgress" /\ status' = "InProgress") =>
            /\ status = "TestReady"
            /\ testPaper' = testPaper
            /\ generation = "ok"]_vars

C11_Witness ==
    /\ status = "Idle"
    /\ generation = "failed"
    /\ testPaper # NoPaper
    /\ flow = NoFlow

\* C12: a playback that fails (the situation of SpeakingC, a ListeningA
\* question, the ListeningB passage or a ListeningB question) resolves, and the
\* item it belongs to still reaches its recording window: the failure neither
\* blocks the run nor skips the recording.
C12_PlaybackFailureProceeds ==
    (/\ playFailed
     /\ status = "InProgress"
     /\ itemIndex < ItemCount(testPaper, currentSection))
        ~> (/\ playFailed
            /\ phase = "recording"
            /\ rec.mounted
            /\ rec.sectionType = currentSection
            /\ rec.itemIndex = itemIndex)

C12_Witness ==
    /\ playFailed
    /\ currentSection = "ListeningB"
    /\ itemIndex = 0
    /\ phase = "recording"
    /\ rec.mr = "recording"

\* The (section, item) pairs the run has left behind when the cursor stands at
\* (sec, idx), with or without the item at the cursor.
ItemsUpTo(paper, sec, idx, withCursor) ==
    UNION {{<<Sections[k], i>> : i \in 0..LastIndex(paper, Sections[k])} :
              k \in 1..(SectionIndex(sec) - 1)}
    \cup {<<sec, i>> : i \in 0..(idx - 1)}
    \cup (IF withCursor THEN {<<sec, idx>>} ELSE {})

\* The (section, item) pairs of the records of a log.
RecordedItems(log) == {<<log[k].sectionType, log[k].itemIndex>> : k \in 1..Len(log)}

\* C13: handleRecordingComplete fires exactly once for each item: whatever
\* the order of 'Stop Early' and the countdown, the log holds one record for each
\* item the cursor has left and none twice, and the cursor is at a later item,
\* in the rest or at scoring only when the record of the item is in the log.
C13_OneCapturePerItem ==
    /\ status \in {"InProgress", "Scoring"} =>
          LET done == status = "Scoring" \/ flow.pc = "rest"
              items == ItemsUpTo(testPaper, currentSection, itemIndex, done)
          IN  /\ RecordedItems(userResponses) = items
              /\ Len(userResponses) = Cardinality(items)
    /\ rec.mr = "stopping" => ~rec.isRecording

C13_Witness ==
    /\ rec.mr = "stopping"
    /\ rec.timeLeft = 1
    /\ currentSection = "SpeakingA"
    /\ itemIndex = 1
    /\ Len(userResponses) = 1

\* The sections whose items have a preparation.
PrepSections == {"SpeakingA", "SpeakingB", "SpeakingD", "ListeningB"}

\* What the subject can do: the three buttons and 'Stop Early'.
SubjectActs == StartGeneration \/ StartTest \/ StopEarly \/ Restart

\* C14: the preparation of an item starts with the timer at its duration d
\* (30, 60, 60, or prepTime of the ListeningB question), each step of it takes
\* one off the timer, 'recording' is entered from 'prep' only by the tick from 1
\* to 0, an item with a preparation enters 'recording' from nowhere else, and
\* during the preparation the subject has nothing to act on.
C14_PrepCountdown ==
    /\ [](status = "InProgress" /\ phase = "prep" =>
            /\ flow.pc = "prep"
            /\ currentSection \in PrepSections
            /\ timer = flow.i
            /\ timer \in 1..PrepSeconds(testPaper, currentSection, itemIndex)
            /\ ~ENABLED SubjectActs)
    /\ [][(phase # "prep" /\ phase' = "prep") =>
            timer' = PrepSeconds(testPaper', currentSection', itemIndex')]_vars
    /\ [][(phase = "prep" /\ phase' = "prep") => timer' = timer - 1]_vars
    /\ [][(phase = "prep" /\ phase' # "prep") =>
            /\ timer = 1
            /\ timer' = 0
            /\ phase' = "recording"]_vars
    /\ [][(/\ status' = "InProgress"
           /\ phase # "recording"
           /\ phase' = "recording"
           /\ currentSection' \in PrepSections
           /\ itemIndex' < ItemCount(testPaper', currentSection')) =>
            phase = "prep"]_vars

C14_Witness ==
    /\ status = "InProgress"
    /\ currentSection = "SpeakingD"
    /\ phase = "recording"
    /\ timer = 0
    /\ rec.mounted

\* The number of interval callbacks after which a window of maxDuration d is
\* stopped by the countdown.
TicksToStop(d) == IF d >= 1 THEN d ELSE 1

PassagePlays(log) == {k \in 1..Len(log) : log[k].text = "passage"}

\* C16 as claimed: in a complete run the ListeningB passage is played exactly
\* once, however many questions there are.
C16_PassagePlayedOnce ==
    status \in {"Scoring", "Review"} => Cardinality(PassagePlays(playLog)) = 1

\* C16 as amended: in a complete run the passage is played exactly twice, in
\* two readings one after the other before the first question, however many
\* questions there are.
C16_PassagePlayedTwice ==
    /\ Cardinality(PassagePlays(playLog)) <= 2
    /\ \A k \in PassagePlays(playLog) :
          /\ playLog[k].idx = 0
          /\ \A j \in 1..(k - 1) : playLog[j].sec # "ListeningB" \/ playLog[j].text = "passage"
    /\ status \in {"Scoring", "Review"} =>
          \E k \in 1..(Len(playLog) - 1) : PassagePlays(playLog) = {k, k + 1}

C16_Witness ==
    /\ status = "Scoring"
    /\ Len(testPaper.listeningB) = 2
    /\ Cardinality(PassagePlays(playLog)) = 2

\* The pcs of runListeningB inside its if (qIndex === 0) block.
PassagePcs == {"renderPassage", "passage1", "gap", "passage2"}

\* C17: the passage is played only while runListeningB handles question 0:
\* the flow is inside the passage block only with the cursor at question 0,
\* every passage entry of the playLog carries index 0, and for a question of
\* index > 0 the only playback is the one of the question itself.
C17_PassageOnlyAtFirstQuestion ==
    /\ flow.pc \in PassagePcs =>
          /\ flow.sec = "ListeningB"
          /\ flow.idx = 0
          /\ currentSection = "ListeningB"
          /\ itemIndex = 0
    /\ \A k \in 1..Len(playLog) :
          /\ playLog[k].text = "passage" =>
                playLog[k].sec = "ListeningB" /\ playLog[k].idx = 0
          /\ (playLog[k].sec = "ListeningB" /\ playLog[k].idx > 0) =>
                /\ playLog[k].text = "question"
                /\ \A j \in 1..Len(playLog) :
                      (playLog[j].sec = "ListeningB" /\ playLog[j].idx = playLog[k].idx)
                          => j = k
                /\ k > 1
                /\ playLog[k - 1].sec = "ListeningB"
                /\ playLog[k - 1].idx = playLog[k].idx - 1
                /\ playLog[k - 1].text = "question"

C17_Witness ==
    /\ status = "InProgress"
    /\ currentSection = "ListeningB"
    /\ itemIndex = 1
    /\ phase = "recording"
    /\ playLog[Len(playLog)] = [sec |-> "ListeningB", idx |-> 1, text |-> "question"]

\* C18: while a run is in progress the cursor designates an item of the
\* paper, also when a section of the paper has no items.  Stated as claimed;
\* the code runs a section without items once, with the cursor at index 0 (C1).
C18_CursorDesignatesItem ==
    status = "InProgress" => itemIndex < ItemCount(testPaper, currentSection)

\* Some listeningB question of the paper has recordTime 0.
HasZeroRecordTime(paper) ==
    \E k \in 1..Len(paper.listeningB) : paper.listeningB[k].recordTime = 0

\* The recorder is mounted for a listeningB question with recordTime 0.
WindowOfZeroRecordTime ==
    /\ rec.mounted
    /\ rec.sectionType = "ListeningB"
    /\ rec.itemIndex < Len(testPaper.listeningB)
    /\ testPaper.listeningB[rec.itemIndex + 1].recordTime = 0

\* C19 as claimed: a paper with a question of recordTime 0 never stands at
\* TestReady, and no recording window is opened for such a question.
C19_ZeroRecordTimeRejected ==
    /\ status = "TestReady" => ~HasZeroRecordTime(testPaper)
    /\ ~WindowOfZeroRecordTime

\* C19 as amended: such a paper is accepted, and the window of a question
\* with recordTime 0 is opened with the default of 30 seconds; no window is
\* opened with a duration that is not positive.
C19_ZeroRecordTimeDefaults ==
    /\ rec.mounted => rec.maxDuration > 0
    /\ WindowOfZeroRecordTime =>
          /\ HasZeroRecordTime(testPaper)
          /\ rec.maxDuration = RecordSecondsDefault
          /\ rec.timeLeft + rec.ticks = RecordSecondsDefault

C19_Witness ==
    /\ WindowOfZeroRecordTime
    /\ status = "InProgress"
    /\ rec.mr = "recording"
    /\ rec.ticks = 1

\* A step that aborts the run: the run is over, nothing was appended to the
\* log and no stream is held.
AbortStep ==
    /\ Next
    /\ status' \notin {"InProgress", "Scoring"}
    /\ userResponses' = userResponses
    /\ ~rec'.stream

C21_StreamReleasedOnEveryExit ==
    /\ rec.stream => status = "InProgress" /\ phase = "recording"
    /\ (~rec.starting /\ rec.mr \notin {"recording", "stopping"}) => ~rec.stream

\* A run* flow or handleRecordingComplete is suspended at an await.
FlowPending == flow.pc \notin {"idle", "dead"}

\* A recording window is open: the recorder is mounted or its stop event is
\* still to come.
WindowOpen == rec.mounted \/ rec.mr \in {"recording", "stopping"}

\* C22: at most one item flow is in progress: while a flow is suspended in a
\* countdown, a delay or a playback no recording window is open and neither
\* startTest nor a recorder's onstop, the two places that start a flow, can
\* run; while a window is open no flow is suspended; and scoring runs only
\* when both are over.
C22_OneFlowAtATime ==
    /\ FlowPending =>
          /\ status = "InProgress"
          /\ ~WindowOpen
          /\ ~ENABLED StartTest
          /\ ~ENABLED OnStop
    /\ WindowOpen =>
          /\ status = "InProgress"
          /\ ~FlowPending
          /\ ~ENABLED StartTest
    /\ proc.pc # "none" => ~FlowPending /\ ~WindowOpen

C22_Witness ==
    /\ WindowOpen
    /\ rec.mr = "recording"
    /\ currentSection = "SpeakingC"
    /\ itemIndex = 1
    /\ flow = NoFlow

\* C23: userResponses is append-only: a step leaves it as it is, adds one
\* record at its end, or is the reset of startGeneration (when the paper has
\* arrived) or of startTest.
C23_LogAppendOnly ==
    [][\/ userResponses' = userResponses
       \/ /\ Len(userResponses') = Len(userResponses) + 1
          /\ SubSeq(userResponses', 1, Len(userResponses)) = userResponses
          /\ status = "InProgress"
       \/ /\ userResponses' = <<>>
          /\ \/ status = "GeneratingTest" /\ status' = "TestReady"
             \/ status = "TestReady" /\ status' = "InProgress"]_vars

C23_Witness ==
    /\ status = "InProgress"
    /\ Len(userResponses) = 4
    /\ userResponses[4].sectionType = "SpeakingC"

\* The place of a phase in the order instruction, playing, prep, recording,
\* rest.
PhaseRank(p) ==
    CASE p = "instruction" -> 1
      [] p = "playing" -> 2
      [] p = "prep" -> 3
      [] p = "recording" -> 4
      [] p = "rest" -> 5

\* The values of a log go forward only: it begins with 'instruction' and each
\* value comes later in the order than the one before it.
ForwardOnly(log) ==
    /\ Len(log) > 0 => log[1] = "instruction"
    /\ \A i \in 1..(Len(log) - 1) : PhaseRank(log[i]) < PhaseRank(log[i + 1])

\* C24 (as claimed): within one item the values given to phase follow the
\* order instruction, playing, prep, recording and never go backward, in
\* particular never from 'playing' back to 'instruction'.
C24_NoBackwardPhase ==
    ForwardOnly(phaseLog)

\* C24 (amended): the values given to phase go forward only for every item
\* but the first ListeningB question, whose flow sets 'instruction' and
\* 'playing' for the passage and then 'instruction' and 'playing' again for
\* the question, and goes forward only from there.
C24_BackwardOnlyAfterPassage ==
    \/ ForwardOnly(phaseLog)
    \/ /\ currentSection = "ListeningB"
       /\ itemIndex = 0
       /\ Len(phaseLog) >= 3
       /\ SubSeq(phaseLog, 1, 2) = <<"instruction", "playing">>
       /\ ForwardOnly(SubSeq(phaseLog, 3, Len(phaseLog)))

C24_Witness ==
    /\ rec.mr = "recording"
    /\ currentSection = "ListeningB"
    /\ itemIndex = 0
    /\ phaseLog = <<"instruction", "playing", "instruction", "playing", "prep", "recording">>

\* The sections whose items have audio to play.
AudioSections == {"SpeakingC", "ListeningA", "ListeningB"}

\* The item under the cursor has a preparation of more than 0 seconds.
HasPositivePrep ==
    /\ currentSection \in PrepSections
    /\ IF currentSection = "ListeningB"
       THEN /\ itemIndex < Len(testPaper.listeningB)
            /\ testPaper.listeningB[itemIndex + 1].prepTime > 0
       ELSE PrepSeconds(testPaper, currentSection, itemIndex) > 0

\* C25: during a run phase is set to 'prep' for an item only when the
\* preparation of the item lasts more than 0 seconds (so not for a ListeningB
\* question with prepTime 0, and never for a SpeakingC or ListeningA item), and
\* to 'playing' only for an item that has audio to play.
C25_OptionalPhasesFollowItem ==
    status = "InProgress" =>
        \A i \in 1..Len(phaseLog) :
            /\ phaseLog[i] = "prep" => HasPositivePrep
            /\ phaseLog[i] = "playing" => currentSection \in AudioSections

\* Nothing that userResponses or scores hold was left by an earlier run.
NothingCarried == carried = [responses |-> 0, scores |-> 0]

\* C26: a run begins with an empty userResponses and the cursor at SpeakingA
\* item 0, after a generation that succeeded; from the TestReady screen to the
\* Review screen of a run neither userResponses nor scores holds an entry of
\* an earlier run, and the log a scoring pass works on is the log of the run.
C26_RunsAreSeparate ==
    /\ [](status \in {"TestReady", "InProgress", "Scoring", "Review"} => NothingCarried)
    /\ [](proc.pc \in {"await", "dead"} => proc.log = userResponses)
    /\ [][(status # "InProgress" /\ status' = "InProgress") =>
            /\ generation = "ok"
            /\ scores = <<>>
            /\ userResponses' = <<>>
            /\ currentSection' = "SpeakingA"
            /\ itemIndex' = 0
            /\ subItemIndex' = 0]_vars

C26_Witness ==
    /\ status = "InProgress"
    /\ scoringProgress.total > 0
    /\ Len(userResponses) = 1
    /\ NothingCarried

\* The log holds a record of every item of section sec of the paper.
AllCaptured(log, sec) ==
    \A i \in 0..(ItemCount(testPaper, sec) - 1) :
        \E k \in 1..Len(log) : log[k].sectionType = sec /\ log[k].itemIndex = i

\* C27: in every run currentSection goes through SpeakingA, SpeakingB,
\* SpeakingC, SpeakingD, ListeningA, ListeningB in this order: a run starts in
\* SpeakingA, currentSection changes during a run only to the section that
\* follows it in the order and only when every item of the section it leaves
\* has a record in the log, and the run goes to Scoring only from ListeningB
\* with every question recorded.
C27_SectionsInOrder ==
    /\ [][(status # "InProgress" /\ status' = "InProgress") =>
            currentSection' = "SpeakingA"]_vars
    /\ [][(status = "InProgress" /\ currentSection' # currentSection) =>
            /\ status' = "InProgress"
            /\ SectionIndex(currentSection) < Len(Sections)
            /\ currentSection' = Sections[SectionIndex(currentSection) + 1]
            /\ AllCaptured(userResponses, currentSection)]_vars
    /\ [][(status # "InProgress" /\ status' # "InProgress") =>
            currentSection' = currentSection]_vars
    /\ [][(status = "InProgress" /\ status' # "InProgress") =>
            /\ status' = "Scoring"
            /\ currentSection = "ListeningB"
            /\ currentSection' = "ListeningB"
            /\ AllCaptured(userResponses', "ListeningB")]_vars

C27_Witness ==
    /\ status = "InProgress"
    /\ currentSection = "ListeningB"
    /\ testPaper.speakingA = 2
    /\ testPaper.speakingC = 2
    /\ testPaper.listeningA = 2
    /\ Len(userResponses) = 8

\* The records of the ListeningB section, in the order of the log.
ListeningBRecords == SelectSeq(userResponses, LAMBDA r : r.sectionType = "ListeningB")

\* What the claim gives as the reference text of the record of question q at
\* index idx.
KeyOrFallback(q, idx) ==
    IF q.answerKey # "undefined" /\ q.answerKey # ""
    THEN [rule |-> "answer key", index |-> idx]
    ELSE IF q.type = "fact"
         THEN [rule |-> "Factual answer from text", index |-> -1]
         ELSE [rule |-> "Opinionated answer", index |-> -1]

\* C28: the j-th ListeningB record of a run is the record of the question at
\* index j - 1, the index at which its window was opened, and its
\* referenceText is the answerKey of that question when the key is there and
\* not empty, 'Factual answer from text' when it is not and the type is
\* 'fact', and 'Opinionated answer' otherwise.
C28_ListeningBReference ==
    /\ (rec.mounted /\ rec.sectionType = "ListeningB") =>
            /\ currentSection = "ListeningB"
            /\ rec.itemIndex = itemIndex
            /\ rec.itemIndex = Len(ListeningBRecords)
    /\ \A j \in 1..Len(ListeningBRecords) :
            /\ ListeningBRecords[j].itemIndex = j - 1
            /\ j <= Len(testPaper.listeningB)
            /\ ListeningBRecords[j].referenceText =
                   KeyOrFallback(testPaper.listeningB[j], j - 1)

C28_Witness ==
    /\ status = "Scoring"
    /\ Len(ListeningBRecords) = 2
    /\ testPaper.listeningB[1].answerKey = "key"
    /\ testPaper.listeningB[2].answerKey = ""
    /\ testPaper.listeningB[2].type = "opinion"
    /\ ListeningBRecords[2].referenceText.rule = "Opinionated answer"

\* A paper every section of which has at least one item.
ValidPaper(paper) ==
    /\ paper.speakingA >= 1
    /\ paper.speakingC >= 1
    /\ paper.listeningA >= 1
    /\ Len(paper.listeningB) >= 1

\* The rules the claim names, by section tag: what referenceText and context
\* of a record of item idx are made from.
RuleOfSection(sec, idx) ==
    CASE sec = "SpeakingA" ->
            [referenceText |-> {[rule |-> "sentence", index |-> idx]},
             context |-> {Empty}]
      [] sec = "SpeakingB" ->
            [referenceText |-> {[rule |-> "passage text", index |-> -1]},
             context |-> {Empty}]
      [] sec = "SpeakingC" ->
            [referenceText |-> {[rule |-> "ask two questions", index |-> -1]},
             context |-> {[rule |-> "situation", index |-> idx]}]
      [] sec = "SpeakingD" ->
            [referenceText |-> {[rule |-> "story starting with", index |-> -1]},
             context |-> {[rule |-> "image description", index |-> -1]}]
      [] sec = "ListeningA" ->
            [referenceText |-> {[rule |-> "appropriate response", index |-> -1]},
             context |-> {[rule |-> "prompt", index |-> idx]}]
      [] sec = "ListeningB" ->
            [referenceText |-> {[rule |-> "answer key", index |-> idx],
                                [rule |-> "Factual answer from text", index |-> -1],
                                [rule |-> "Opinionated answer", index |-> -1]},
             context |-> {[rule |-> "passage and question", index |-> idx]}]

\* C29: every record of the log carries one of the six section tags, and when
\* the paper has at least one item in every section its referenceText and
\* context are the ones of the rule of its tag, read at its itemIndex; no
\* record keeps the initial empty referenceText.
C29_ReferenceRuleBySection ==
    \A k \in 1..Len(userResponses) :
        LET r == userResponses[k]
        IN  /\ r.sectionType \in {Sections[n] : n \in 1..Len(Sections)}
            /\ r.referenceText # Empty
            /\ ValidPaper(testPaper) =>
                   /\ r.referenceText \in RuleOfSection(r.sectionType, r.itemIndex).referenceText
                   /\ r.context \in RuleOfSection(r.sectionType, r.itemIndex).context

C29_Witness ==
    /\ status = "Scoring"
    /\ ValidPaper(testPaper)
    /\ testPaper.speakingA = 2
    /\ testPaper.speakingC = 2
    /\ \A n \in 1..Len(Sections) :
           \E k \in 1..Len(userResponses) : userResponses[k].sectionType = Sections[n]

\* The item cursor.
Cursor == <<currentSection, itemIndex, subItemIndex>>

\* C30: a rest starts with the timer at 10, every step taken while it counts
\* is a tick that takes one off the timer, and the tick from 1 to 0 is the one
\* that goes on to the next section, so a rest lasts exactly 10 ticks; while
\* phase is 'rest' no recording window is open and the subject has nothing to
\* act on, and the cursor and the log stay as they are until that last tick.
C30_RestCountdown ==
    /\ [](phase = "rest" =>
            /\ status = "InProgress"
            /\ timer \in 0..10
            /\ timer > 0 => flow.pc = "rest" /\ timer = flow.i
            /\ timer = 0 => flow.pc = "dead"
            /\ ~WindowOpen
            /\ ~ENABLED SubjectActs)
    /\ [][(phase # "rest" /\ phase' = "rest") => timer' = 10]_vars
    /\ [][(phase = "rest" /\ timer > 1) =>
            /\ phase' = "rest"
            /\ timer' = timer - 1
            /\ Cursor' = Cursor
            /\ userResponses' = userResponses]_vars
    /\ [][(phase = "rest" /\ timer = 1) =>
            /\ timer' = 0
            /\ flow.pc = "rest"
            /\ flow'.pc # "rest"
            /\ status' = "InProgress"
            /\ userResponses' = userResponses]_vars

C30_Witness ==
    /\ phase = "rest"
    /\ timer = 1
    /\ currentSection = "ListeningA"
    /\ Len(restLog) = 5

\* The edges of AppStatus.
StatusEdges ==
    {<<"Idle", "GeneratingTest">>, <<"GeneratingTest", "TestReady">>,
     <<"GeneratingTest", "Idle">>, <<"TestReady", "InProgress">>,
     <<"InProgress", "Scoring">>, <<"Scoring", "Review">>, <<"Review", "Idle">>}

\* C31: status changes only along Idle -> GeneratingTest, GeneratingTest ->
\* TestReady (after a generation that succeeded), GeneratingTest -> Idle (after
\* one that failed), TestReady -> InProgress, InProgress -> Scoring, Scoring ->
\* Review and Review -> Idle; Scoring is entered only by the step that appends
\* the record of the last ListeningB question.
C31_StatusEdges ==
    [][status' # status =>
        /\ <<status, status'>> \in StatusEdges
        /\ status' = "TestReady" => generation' = "ok"
        /\ (status = "GeneratingTest" /\ status' = "Idle") => generation' = "failed"
        /\ status' = "Scoring" =>
              /\ currentSection = "ListeningB"
              /\ Len(userResponses') = Len(userResponses) + 1
              /\ userResponses'[Len(userResponses')].sectionType = "ListeningB"
              /\ userResponses'[Len(userResponses')].itemIndex =
                     Len(testPaper.listeningB) - 1]_vars

C31_Witness ==
    /\ status = "Idle"
    /\ generation = "ok"
    /\ carried.responses > 0
    /\ Len(scores) > 0

\* Some SectionScore holds the 'Evaluation failed' result for the k-th response.
HasFailedItem(sc, k) ==
    \E j \in 1..Len(sc) : \E h \in 1..Len(sc[j].items) :
        sc[j].items[h] = [resp |-> k, kind |-> "evaluation failed"]

\* C32: a failure of the scoring model call is answered by evaluateAudio with
\* the 'Evaluation failed' result, which processExamResults adds to the section
\* of the response like any other; when no call of the pass was rejected the
\* score items at Review number the responses.
C32_ModelFailureStillScored ==
    /\ proc.pc = "await" =>
            \A k \in 1..Len(outcomes) :
                outcomes[k] = "evaluation failed" => HasFailedItem(proc.newScores, k)
    /\ status = "Review" =>
            /\ \A k \in 1..Len(outcomes) :
                   outcomes[k] = "evaluation failed" => HasFailedItem(scores, k)
            /\ Rejected(outcomes) = 0 => TotalScoreItems(scores) = Len(userResponses)

C32_Witness ==
    /\ status = "Review"
    /\ Len(outcomes) >= 3
    /\ outcomes[2] = "evaluation failed"
    /\ HasFailedItem(scores, 2)
    /\ TotalScoreItems(scores) = Len(userResponses)

\* The record of the last ListeningB question of the paper.
IsFinalRecord(r) ==
    /\ r.sectionType = "ListeningB"
    /\ r.itemIndex = Len(testPaper.listeningB) - 1

\* C33: the step that sets status to Scoring is the step that appends the
\* record of the last ListeningB question, and it leaves one scoring pass to
\* run; the pass starts once, while status is Scoring, over the whole log,
\* final record included, and the log does not change while it runs.
C33_BatchIsCompleteLog ==
    /\ [][(status # "Scoring" /\ status' = "Scoring") =>
            /\ Len(userResponses') = Len(userResponses) + 1
            /\ IsFinalRecord(userResponses'[Len(userResponses')])
            /\ proc.pc = "none"
            /\ proc'.pc = "pending"]_vars
    /\ [][proc'.pc = "pending" => (proc.pc = "pending" \/ status # "Scoring")]_vars
    /\ [][(proc.pc = "pending" /\ proc'.pc # "pending") =>
            /\ status = "Scoring"
            /\ proc'.pc = "await"
            /\ proc'.i = 1
            /\ proc'.log = userResponses]_vars
    /\ [](status = "Scoring" =>
            /\ Len(userResponses) >= 1
            /\ IsFinalRecord(userResponses[Len(userResponses)])
            /\ proc.pc \in {"pending", "await"}
            /\ proc.pc = "await" => proc.log = userResponses)
    /\ [][status = "Scoring" => userResponses' = userResponses]_vars

C33_Witness ==
    /\ status = "Scoring"
    /\ proc.pc = "await"
    /\ proc.i = Len(userResponses)
    /\ proc.i >= 7
    /\ IsFinalRecord(proc.log[proc.i])

\* The last record of the log is the record of the item under the cursor.
LastRecordAtCursor ==
    /\ Len(userResponses) >= 1
    /\ userResponses[Len(userResponses)].sectionType = currentSection
    /\ userResponses[Len(userResponses)].itemIndex = itemIndex

\* C34: the step that starts a rest appends the record of the last item of a
\* section other than ListeningB and leaves currentSection and itemIndex as
\* they are; they stay so while the rest counts, and the tick that takes the
\* timer to 0 sets currentSection to the next section and itemIndex to 0.
C34_CursorKeptDuringRest ==
    /\ [][(phase # "rest" /\ phase' = "rest") =>
            /\ currentSection # "ListeningB"
            /\ itemIndex >= ItemCount(testPaper, currentSection) - 1
            /\ Len(userResponses') = Len(userResponses) + 1
            /\ currentSection' = currentSection
            /\ itemIndex' = itemIndex
            /\ LastRecordAtCursor']_vars
    /\ [](phase = "rest" /\ timer > 0 => LastRecordAtCursor)
    /\ [][(phase = "rest" /\ timer > 1) =>
            /\ currentSection' = currentSection
            /\ itemIndex' = itemIndex]_vars
    /\ [][(phase = "rest" /\ timer = 1) =>
            /\ timer' = 0
            /\ currentSection' = Sections[SectionIndex(currentSection) + 1]
            /\ itemIndex' = 0]_vars
    /\ [][currentSection' # currentSection =>
            \/ phase = "rest" /\ timer = 1
            \/ status = "TestReady"]_vars

C34_Witness ==
    /\ phase = "rest"
    /\ timer = 5
    /\ currentSection = "SpeakingC"
    /\ itemIndex = 1
    /\ LastRecordAtCursor

\* What tells the records of a run apart.
RecordKey(r) == <<r.sectionType, r.itemIndex, r.subIndex>>

SpeakingDRecords == SelectSeq(userResponses, LAMBDA r : r.sectionType = "SpeakingD")

\* The paper has an imageDescription and no image came of it.
ImageMissing == testPaper.imageDescription /\ testPaper.imageUrl = ""

\* C36: once generateTestPaper has succeeded startGeneration sets the paper
\* and shows TestReady whatever came of generateImage, and goes back to Idle
\* only when generateTestPaper failed; with or without an image the SpeakingD
\* item runs and leaves exactly one record.
C36_ImageFailureKeepsExam ==
    /\ [][(status = "GeneratingTest" /\ generation' = "ok") =>
            /\ status' = "TestReady"
            /\ testPaper' # NoPaper
            /\ testPaper'.imageUrl \in {"data:image", "", "undefined"}]_vars
    /\ [][(status = "GeneratingTest" /\ status' = "Idle") =>
            /\ generation' = "failed"
            /\ testPaper' = testPaper]_vars
    /\ [](status = "InProgress" =>
            Len(SpeakingDRecords) =
               IF SectionIndex(currentSection) > SectionIndex("SpeakingD")
                  \/ (currentSection = "SpeakingD" /\ phase = "rest")
               THEN 1 ELSE 0)
    /\ [](status \in {"Scoring", "Review"} => Len(SpeakingDRecords) = 1)

C36_Witness ==
    /\ status = "Scoring"
    /\ ImageMissing
    /\ Len(SpeakingDRecords) = 1

\* The screen that renders the AudioRecorder.
RecordingScreen == status = "InProgress" /\ phase = "recording"

\* C37: the AudioRecorder is mounted exactly while status is InProgress and
\* phase is 'recording', and a capture runs only in a mounted recorder; every
\* entry into that screen mounts a fresh recorder whose mount effect starts
\* it, a recorder starts at most one capture, and the step that completes a
\* capture leaves the screen, so the next window gets a recorder of its own.
C37_RecorderMountedWhenRecording ==
    /\ [](rec.mounted <=> RecordingScreen)
    /\ [](rec.mr \in {"recording", "stopping"} => rec.mounted)
    /\ [](rec.stream \/ rec.interval \/ rec.isRecording => rec.mounted)
    /\ [][(~RecordingScreen /\ RecordingScreen') =>
            rec' = MountRecorder(testPaper', currentSection', itemIndex', subItemIndex')]_vars
    /\ [][rec'.mounted /\ rec'.starting /\ ~(rec.mounted /\ rec.starting) =>
            ~RecordingScreen /\ rec'.mr = "none"]_vars
    /\ [][(rec.mr # "recording" /\ rec'.mr = "recording") =>
            rec.mounted /\ rec.starting /\ rec.mr = "none" /\ ~rec'.starting]_vars
    /\ [][Len(userResponses') = Len(userResponses) + 1 =>
            /\ rec.mr = "stopping"
            /\ ~RecordingScreen'
            /\ ~rec'.mounted]_vars

C37_Witness ==
    /\ RecordingScreen
    /\ rec.mounted
    /\ rec.mr = "recording"
    /\ currentSection = "ListeningA"
    /\ itemIndex = 1
    /\ Len(userResponses) >= 5

\* The ceiling the claim gives for a window opened with the cursor at item
\* idx of section sec.
CeilingOf(paper, sec, idx) ==
    CASE sec = "SpeakingA" -> 15
      [] sec = "SpeakingB" -> 30
      [] sec = "SpeakingC" -> 20
      [] sec = "SpeakingD" -> 60
      [] sec = "ListeningA" -> 5
      [] sec = "ListeningB" ->
            IF idx < Len(paper.listeningB) /\ paper.listeningB[idx + 1].recordTime > 0
            THEN paper.listeningB[idx + 1].recordTime
            ELSE 30

\* C38: the maxDuration a recorder is mounted with is the ceiling of the item
\* under the cursor of the mounting render (15, 30, 20, 60, 5, or the
\* recordTime of the ListeningB question, 30 standing in for a recordTime of
\* 0), the countdown starts from it, and it is greater than 0.
C38_RecordingCeiling ==
    /\ [][(~rec.mounted /\ rec'.mounted) =>
            /\ rec'.maxDuration = CeilingOf(testPaper', currentSection', itemIndex')
            /\ rec'.timeLeft = rec'.maxDuration]_vars
    /\ [](rec.mounted =>
            /\ rec.maxDuration = CeilingOf(testPaper, currentSection, itemIndex)
            /\ rec.maxDuration > 0
            /\ rec.timeLeft <= rec.maxDuration)
    /\ [][(rec.mounted /\ rec'.mounted) => rec'.maxDuration = rec.maxDuration]_vars

C38_Witness ==
    /\ rec.mounted
    /\ rec.mr = "recording"
    /\ currentSection = "ListeningB"
    /\ itemIndex = 1
    /\ testPaper.listeningB[1].recordTime = 3
    /\ testPaper.listeningB[2].recordTime = 0
    /\ rec.maxDuration = 30

\* C39: while status is Scoring scoringProgress.total is the length of the
\* log and current lies in 1..total; current changes only by going up by 1,
\* and while the submission of the i-th entry (counted from 1) is awaited
\* current is i.
C39_ProgressCountsSubmissions ==
    /\ [](status = "Scoring" =>
            /\ scoringProgress.total = Len(userResponses)
            /\ scoringProgress.current \in 1..scoringProgress.total)
    /\ [](proc.pc = "await" => scoringProgress.current = proc.i)
    /\ [][(status = "Scoring" /\ status' = "Scoring") =>
            \/ scoringProgress' = scoringProgress
            \/ /\ scoringProgress'.current = scoringProgress.current + 1
               /\ scoringProgress'.total = scoringProgress.total]_vars

====
